---- MODULE Spec2Model ----
(***************************************************************************)
(* A model of the board/session state machine of src/main.rs (BoardState): *)
(* the linear grid of dots, the trail, the score and the move counter, and *)
(* the operations handle_click, reset and finish_trail with the gravity    *)
(* and refill they call (drop_remaining, fill_column).                     *)
(*                                                                         *)
(* The source fixes BOARD_SIZE = 10, MOVE_LIMIT = 30 and four playable     *)
(* colours.  The model is checked on a scaled board: BOARD_SIZE, MOVE_LIMIT*)
(* and NumColors are the scaled values, MaxTrail caps the trail, which the *)
(* source lets grow without limit.                                         *)
(***************************************************************************)
EXTENDS Integers, Sequences, FiniteSets

VARIABLES
    dots,         \* BoardState.dots, the board as a linear array
    trail,        \* BoardState.trail
    score,        \* BoardState.score
    moves_left,   \* BoardState.moves_left
    op,           \* history: the operation (and branch) that ran last
    prev,         \* history: the session state that operation started in
    fin,          \* history: what that operation's finish_trail call did
    completions,  \* history: completion clicks since new() or reset()
    drop          \* drop_remaining run column by column: the column it is at,
                  \* and what its loop did for the column before

vars == <<dots, trail, score, moves_left, op, prev, fin, completions, drop>>

\* ---------------------------------------------------------------- bounds
BOARD_SIZE == 3
MOVE_LIMIT == 1
NumColors == 2
MaxTrail == 5
MaxInput == 3

\* ---------------------------------------------------------------- BoardColor
BoardColorNames == <<"Red", "Blue", "Green", "Yellow">>

Empty == "Empty"

\* BoardColor::random(): n drawn from 0..NumColors-1, mapped to a colour.
RandomColors == {BoardColorNames[n + 1] : n \in 0 .. NumColors - 1}

\* ---------------------------------------------------------------- grid
Coord == 0 .. BOARD_SIZE - 1

Cells == 0 .. BOARD_SIZE * BOARD_SIZE - 1

index(x, y) == y * BOARD_SIZE + x

Abs(n) == IF n < 0 THEN -n ELSE n

\* a grid whose every cell was assigned BoardColor::random()
RandomBoards == [Cells -> RandomColors]

\* ---------------------------------------------------------------- can_connect
\* faulty variant: the test against the second-to-last position is missing
can_connect_no_backstep_test(d, t, x, y) ==
    IF t # <<>>
    THEN LET old_x == t[Len(t)][1]
             old_y == t[Len(t)][2]
             dx == x - old_x
             dy == y - old_y
         IN IF Abs(dx) + Abs(dy) = 1
            THEN d[index(x, y)] = d[index(old_x, old_y)]
            ELSE FALSE
    ELSE TRUE

\* faulty variant: the colour of the clicked cell is not compared
can_connect_no_color_test(d, t, x, y) ==
    IF t # <<>>
    THEN LET old_x == t[Len(t)][1]
             old_y == t[Len(t)][2]
             dx == x - old_x
             dy == y - old_y
         IN IF Len(t) >= 2 /\ t[Len(t) - 1] = <<x, y>>
            THEN FALSE
            ELSE Abs(dx) + Abs(dy) = 1
    ELSE TRUE

can_connect(d, t, x, y) ==
    IF t # <<>>
    THEN LET old_x == t[Len(t)][1]
             old_y == t[Len(t)][2]
             dx == x - old_x
             dy == y - old_y
         IN IF Abs(dx) + Abs(dy) = 1
            THEN IF Len(t) >= 2 /\ t[Len(t) - 1] = <<x, y>>
                 THEN FALSE
                 ELSE d[index(x, y)] = d[index(old_x, old_y)]
            ELSE FALSE
    ELSE TRUE

\* ---------------------------------------------------------------- has_loop
\* faulty variant: only the first entry is looked for in the rest
has_loop_first_only(t) ==
    \E j \in 2 .. Len(t) : t[j] = t[1]

has_loop(t) ==
    \E b \in 1 .. Len(t) : \E j \in b + 1 .. Len(t) : t[j] = t[b]

\* ---------------------------------------------------------------- fill_column
total_rolls == 3

RECURSIVE ScanColumn(_, _, _, _, _, _)
\* the first loop of fill_column, rows BOARD_SIZE-1 down to 0; y is the row
\* visited next.  ok = FALSE is the early "return false"; touched holds the
\* coordinates whose index the loop has computed.
ScanColumn(d, x, y, first_empty, seen_non_empty, touched) ==
    IF y < 0
    THEN [ok |-> TRUE, first_empty |-> first_empty, touched |-> touched]
    ELSE LET seen == touched \cup {<<x, y>>}
         IN IF d[index(x, y)] = Empty /\ ~seen_non_empty
            THEN ScanColumn(d, x, y - 1, y, seen_non_empty, seen)
            ELSE IF seen_non_empty /\ d[index(x, y)] = Empty
                 THEN [ok |-> FALSE, first_empty |-> first_empty, touched |-> seen]
                 ELSE ScanColumn(d, x, y - 1, first_empty, TRUE, seen)

\* self.dots[i] in the reroll loop.  The array has BOARD_SIZE*BOARD_SIZE
\* slots; an index outside them yields no colour (the access panics), which
\* the model shows as a value no cell holds.
OutOfRange == "OutOfRange"

At(d, c) ==
    LET i == index(c[1], c[2])
    IN IF i \in Cells THEN d[i] ELSE OutOfRange

\* the coordinates of i3, always computed
I3(x, y) == <<x, y - 1>>

\* faulty variant: the guard holds in column 0 as well
I1I2_any_column(x, y) == IF x >= 0 THEN <<<<x - 1, y>>, <<x - 1, y - 1>>>> ELSE <<>>

\* the coordinates of i1 and i2, computed under "if x > 1"
I1I2(x, y) == IF x > 1 THEN <<<<x - 1, y>>, <<x - 1, y - 1>>>> ELSE <<>>

\* the coordinates of i4 and i5, computed under "if x < BOARD_SIZE - 1"
I4I5(x, y) ==
    IF x < BOARD_SIZE - 1 THEN <<<<x + 1, y - 1>>, <<x + 1, y>>>> ELSE <<>>

\* roll_again after one pass of the body of the reroll loop ("1S5 / 234")
roll_again(d, x, y) ==
    LET l == I1I2(x, y)
        r == I4I5(x, y)
        s == d[index(x, y)]
        v3 == At(d, I3(x, y))
    IN \/ /\ l # <<>>
          /\ LET v1 == At(d, l[1])
             IN v1 = s /\ v1 = At(d, l[2]) /\ v1 = v3
       \/ /\ r # <<>>
          /\ v3 = s
          /\ v3 = At(d, r[1])
          /\ v3 = At(d, r[2])

\* the coordinates whose index one iteration of the fill loop computes
CellTouched(x, y) ==
    IF y = 0
    THEN {<<x, y>>}
    ELSE {<<x, y>>, I3(x, y)}
            \cup {I1I2(x, y)[k] : k \in 1 .. Len(I1I2(x, y))}
            \cup {I4I5(x, y)[k] : k \in 1 .. Len(I4I5(x, y))}

\* faulty variant: the arguments of index are the wrong way round
DrawTransposed(d, x, y) == {[d EXCEPT ![index(y, x)] = c] : c \in RandomColors}

\* dots[index(x, y)] = BoardColor::random(): the boards one draw can leave
Draw(d, x, y) == {[d EXCEPT ![index(x, y)] = c] : c \in RandomColors}

\* the colours drawn for a cell, one more; kept when rec, else left out
Drawn(drawn, d, x, y, rec) == IF rec THEN Append(drawn, d[index(x, y)]) ELSE drawn

RECURSIVE Rolls(_, _, _, _, _, _)
\* the reroll loop, entered at iteration roll: the boards it can leave, each
\* with the colours drawn for the cell so far (drawn) and those it adds
Rolls(d, x, y, roll, drawn, rec) ==
    IF roll >= total_rolls
    THEN {[dots |-> d, drawn |-> drawn]}
    ELSE IF roll_again(d, x, y)
         THEN UNION {Rolls(d2, x, y, roll + 1, Drawn(drawn, d2, x, y, rec), rec) :
                        d2 \in Draw(d, x, y)}
         ELSE Rolls(d, x, y, roll + 1, drawn, rec)

\* one iteration of the second loop of fill_column: draw, then reroll
FillCell(d, x, y, rec) ==
    IF y = 0
    THEN {[dots |-> d1, drawn |-> Drawn(<<>>, d1, x, y, rec)] : d1 \in Draw(d, x, y)}
    ELSE UNION {Rolls(d1, x, y, 0, Drawn(<<>>, d1, x, y, rec), rec) :
                   d1 \in Draw(d, x, y)}

RECURSIVE FillFrom(_, _, _, _, _)
\* the second loop of fill_column from row y up to the top; when rec, log
\* holds, for each row filled so far, the colours drawn for its cell
FillFrom(d, x, y, log, rec) ==
    IF y >= BOARD_SIZE
    THEN {[dots |-> d, log |-> log]}
    ELSE UNION {FillFrom(c.dots, x, y + 1, IF rec THEN Append(log, c.drawn) ELSE log,
                         rec) : c \in FillCell(d, x, y, rec)}

\* fill_column(x): the value returned, first_empty, the coordinates whose
\* index it computed, and the boards it can leave, each with its draws
\* when rec
fill_column(d, x, rec) ==
    LET s == ScanColumn(d, x, BOARD_SIZE - 1, BOARD_SIZE - 1, FALSE, {})
    IN IF s.ok
       THEN [ret |-> TRUE,
             first_empty |-> s.first_empty,
             touched |-> s.touched \cup
                         UNION {CellTouched(x, y) : y \in s.first_empty .. BOARD_SIZE - 1},
             outs |-> FillFrom(d, x, s.first_empty, <<>>, rec)]
       ELSE [ret |-> FALSE,
             first_empty |-> s.first_empty,
             touched |-> s.touched,
             outs |-> {[dots |-> d, log |-> <<>>]}]

\* faulty variant: the upper cell is copied down and left in place
SwapCopiesDown(d, i, j) == [d EXCEPT ![i] = d[j]]

\* ---------------------------------------------------------------- drop_remaining
\* dots.swap(i, j)
Swap(d, i, j) == [d EXCEPT ![i] = d[j], ![j] = d[i]]

RECURSIVE CompactPass(_, _, _, _, _)
\* the for loop over y in 0..BOARD_SIZE-1 inside the while loop; touched
\* holds the coordinates whose index the pass has computed
CompactPass(d, x, y, found_empty, touched) ==
    IF y >= BOARD_SIZE - 1
    THEN [dots |-> d, found_empty |-> found_empty, touched |-> touched]
    ELSE IF d[index(x, y)] = Empty
         THEN CompactPass(Swap(d, index(x, y), index(x, y + 1)), x, y + 1, TRUE,
                          touched \cup {<<x, y>>, <<x, y + 1>>})
         ELSE CompactPass(d, x, y + 1, found_empty, touched \cup {<<x, y>>})

\* faulty variant: a single pass, whatever fill_column returns
ColumnLoopSinglePass(d, x, passes, touched, rec) ==
    LET p == CompactPass(d, x, 0, FALSE, touched)
        f == fill_column(p.dots, x, rec)
    IN [filled |-> f.ret, passes |-> passes, first_empty |-> f.first_empty,
        touched |-> p.touched \cup f.touched, outs |-> f.outs]

RECURSIVE ColumnLoop(_, _, _, _, _)
\* while found_empty { pass; if fill_column(x) { break } } for one column,
\* entered at its iteration number passes: whether it left on break (filled),
\* the iterations it took, and what the last fill_column call gave; rec
\* asks for the colours drawn to be kept with each board
ColumnLoop(d, x, passes, touched, rec) ==
    LET p == CompactPass(d, x, 0, FALSE, touched)
        f == fill_column(p.dots, x, rec)
        t == p.touched \cup f.touched
    IN IF f.ret
       THEN [filled |-> TRUE, passes |-> passes, first_empty |-> f.first_empty,
             touched |-> t, outs |-> f.outs]
       ELSE IF p.found_empty
            THEN ColumnLoop(p.dots, x, passes + 1, t, rec)
            ELSE [filled |-> FALSE, passes |-> passes, first_empty |-> f.first_empty,
                  touched |-> t, outs |-> f.outs]

RECURSIVE DropFrom(_, _, _)
\* the for loop over x of drop_remaining from column x on: the boards it can
\* leave, each with the coordinates whose index was computed
DropFrom(d, x, touched) ==
    IF x >= BOARD_SIZE
    THEN {[dots |-> d, touched |-> touched]}
    ELSE LET c == ColumnLoop(d, x, 1, {}, FALSE)
         IN UNION {DropFrom(d2, x + 1, touched \cup c.touched) :
                      d2 \in {o.dots : o \in c.outs}}

\* the boards drop_remaining can leave
drop_remaining(d) == DropFrom(d, 0, {})

\* ---------------------------------------------------------------- finish_trail
\* what the last operation's call of finish_trail did, if it made one: len is
\* the trail length on entry, loop the value of has_loop(), cleared the cells
\* that are Empty after the clearing step (before drop_remaining), ret the
\* count returned
NoFinish ==
    [called |-> FALSE, len |-> 0, loop |-> FALSE, cleared |-> {}, ret |-> 0,
     touched |-> {}]

RECURSIVE ClearColor(_, _, _, _)
\* dots.iter_mut().filter(|f| **f == trail_color).for_each(..), from cell i on
ClearColor(d, trail_color, i, count) ==
    IF i >= BOARD_SIZE * BOARD_SIZE
    THEN [dots |-> d, count |-> count]
    ELSE IF d[i] = trail_color
         THEN ClearColor([d EXCEPT ![i] = Empty], trail_color, i + 1, count + 1)
         ELSE ClearColor(d, trail_color, i + 1, count)

RECURSIVE ClearTrailButLast(_, _, _, _)
\* faulty variant: the last entry of the trail is left out
ClearTrailButLast(d, t, k, count) ==
    IF k >= Len(t)
    THEN [dots |-> d, count |-> count]
    ELSE ClearTrailButLast([d EXCEPT ![index(t[k][1], t[k][2])] = Empty], t, k + 1,
                           count + 1)

RECURSIVE ClearTrail(_, _, _, _)
\* trail.iter().map(index).for_each(..), from the k-th entry on
ClearTrail(d, t, k, count) ==
    IF k > Len(t)
    THEN [dots |-> d, count |-> count]
    ELSE ClearTrail([d EXCEPT ![index(t[k][1], t[k][2])] = Empty], t, k + 1, count + 1)

\* faulty variant: the loop is not looked for, only the trail is cleared
ClearStepTrailOnly(d, t) == ClearTrail(d, t, 1, 0)

\* the clearing step of finish_trail (trail of two or more): the board it
\* leaves and the count
ClearStep(d, t) ==
    LET trail_color == d[index(t[1][1], t[1][2])]
    IN IF has_loop(t)
       THEN ClearColor(d, trail_color, 0, 0)
       ELSE ClearTrail(d, t, 1, 0)

\* faulty variant: the guard lets a trail of one entry through
finish_trail_guard_one(d, t) ==
    IF Len(t) < 1
    THEN {[dots |-> d, trail |-> t, count |-> 0, cleared |-> {}, touched |-> {}]}
    ELSE LET c == ClearStep(d, t)
             cleared == {i \in Cells : c.dots[i] = Empty}
         IN {[dots |-> r.dots, trail |-> <<>>, count |-> c.count, cleared |-> cleared,
               touched |-> r.touched] : r \in drop_remaining(c.dots)}

\* faulty variant: trail.clear() is missing
finish_trail_keeps_trail(d, t) ==
    IF Len(t) < 2
    THEN {[dots |-> d, trail |-> t, count |-> 0, cleared |-> {}, touched |-> {}]}
    ELSE LET c == ClearStep(d, t)
             cleared == {i \in Cells : c.dots[i] = Empty}
         IN {[dots |-> r.dots, trail |-> t, count |-> c.count, cleared |-> cleared,
               touched |-> r.touched] : r \in drop_remaining(c.dots)}

\* finish_trail(): the outcomes of one call, [dots, trail, count], with
\* cleared, the cells left Empty by the clearing step, before drop_remaining,
\* and touched, the coordinates whose index drop_remaining computed
finish_trail(d, t) ==
    IF Len(t) < 2
    THEN {[dots |-> d, trail |-> t, count |-> 0, cleared |-> {}, touched |-> {}]}
    ELSE LET c == ClearStep(d, t)
             cleared == {i \in Cells : c.dots[i] = Empty}
         IN {[dots |-> r.dots, trail |-> <<>>, count |-> c.count, cleared |-> cleared,
               touched |-> r.touched] : r \in drop_remaining(c.dots)}

FinishRecord(t, r) ==
    [called |-> TRUE, len |-> Len(t), loop |-> has_loop(t),
     cleared |-> r.cleared, ret |-> r.count, touched |-> r.touched]

\* the states of the session: Idle, Building, Terminal
Phase ==
    IF moves_left = 0 THEN "Terminal"
    ELSE IF trail = <<>> THEN "Idle" ELSE "Building"

\* drop when drop_remaining is not being followed column by column
NoDrop ==
    [col |-> 0, x |-> 0, filled |-> FALSE, passes |-> 0, first_empty |-> 0,
     log |-> <<>>]

\* ---------------------------------------------------------------- operations
\* BoardState::new()
Init ==
    /\ dots \in RandomBoards
    /\ trail = <<>>
    /\ score = 0
    /\ moves_left = MOVE_LIMIT
    /\ op = "new"
    /\ prev = "Idle"
    /\ fin = NoFinish
    /\ completions = 0
    /\ drop = NoDrop

\* faulty variant: without the early return the click starts a trail
ClickTerminalStartsTrail(x, y) ==
    /\ moves_left = 0
    /\ trail' = <<<<x, y>>>>
    /\ op' = "terminal"
    /\ prev' = Phase
    /\ fin' = NoFinish
    /\ UNCHANGED <<dots, score, moves_left, completions, drop>>

\* handle_click, moves_left == 0: return
ClickTerminal(x, y) ==
    /\ moves_left = 0
    /\ op' = "terminal"
    /\ prev' = Phase
    /\ fin' = NoFinish
    /\ UNCHANGED <<dots, trail, score, moves_left, completions, drop>>

\* faulty variant: the count returned by finish_trail is taken off the score
ClickCompleteSubtracts(x, y) ==
    /\ moves_left # 0
    /\ trail # <<>>
    /\ Len(trail) >= 2 /\ trail[Len(trail)] = <<x, y>>
    /\ \E r \in finish_trail(dots, trail) :
          /\ dots' = r.dots
          /\ score' = score - r.count
          /\ fin' = FinishRecord(trail, r)
    /\ trail' = <<>>
    /\ moves_left' = moves_left - 1
    /\ op' = "complete"
    /\ prev' = Phase
    /\ completions' = completions + 1
    /\ drop' = drop

\* faulty variant: the completion leaves the trail as it was
ClickCompleteKeepsTrail(x, y) ==
    /\ moves_left # 0
    /\ trail # <<>>
    /\ Len(trail) >= 2 /\ trail[Len(trail)] = <<x, y>>
    /\ \E r \in finish_trail(dots, trail) :
          /\ dots' = r.dots
          /\ score' = score + r.count
          /\ fin' = FinishRecord(trail, r)
    /\ trail' = trail
    /\ moves_left' = moves_left - 1
    /\ op' = "complete"
    /\ prev' = Phase
    /\ completions' = completions + 1
    /\ drop' = drop

\* handle_click, the click on the last position of a trail of two or more
ClickComplete(x, y) ==
    /\ moves_left # 0
    /\ trail # <<>>
    /\ Len(trail) >= 2 /\ trail[Len(trail)] = <<x, y>>
    /\ \E r \in finish_trail(dots, trail) :
          /\ dots' = r.dots
          /\ score' = score + r.count
          /\ fin' = FinishRecord(trail, r)
    /\ trail' = <<>>
    /\ moves_left' = moves_left - 1
    /\ op' = "complete"
    /\ prev' = Phase
    /\ completions' = completions + 1
    /\ drop' = drop

\* handle_click, can_connect accepts: push
ClickExtend(x, y) ==
    /\ moves_left # 0
    /\ trail # <<>>
    /\ ~(Len(trail) >= 2 /\ trail[Len(trail)] = <<x, y>>)
    /\ can_connect(dots, trail, x, y)
    /\ Len(trail) < MaxTrail
    /\ trail' = Append(trail, <<x, y>>)
    /\ op' = "extend"
    /\ prev' = Phase
    /\ fin' = NoFinish
    /\ UNCHANGED <<dots, score, moves_left, completions, drop>>

\* faulty variant: a refused click costs a move
ClickCancelCostsMove(x, y) ==
    /\ moves_left # 0
    /\ trail # <<>>
    /\ ~(Len(trail) >= 2 /\ trail[Len(trail)] = <<x, y>>)
    /\ ~can_connect(dots, trail, x, y)
    /\ trail' = <<>>
    /\ moves_left' = moves_left - 1
    /\ op' = "cancel"
    /\ prev' = Phase
    /\ fin' = NoFinish
    /\ UNCHANGED <<dots, score, completions, drop>>

\* faulty variant: the refused cell starts a new trail
ClickCancelRestartsTrail(x, y) ==
    /\ moves_left # 0
    /\ trail # <<>>
    /\ ~(Len(trail) >= 2 /\ trail[Len(trail)] = <<x, y>>)
    /\ ~can_connect(dots, trail, x, y)
    /\ trail' = <<<<x, y>>>>
    /\ op' = "cancel"
    /\ prev' = Phase
    /\ fin' = NoFinish
    /\ UNCHANGED <<dots, score, moves_left, completions, drop>>

\* handle_click, "Cannot connect": clear the trail
ClickCancel(x, y) ==
    /\ moves_left # 0
    /\ trail # <<>>
    /\ ~(Len(trail) >= 2 /\ trail[Len(trail)] = <<x, y>>)
    /\ ~can_connect(dots, trail, x, y)
    /\ trail' = <<>>
    /\ op' = "cancel"
    /\ prev' = Phase
    /\ fin' = NoFinish
    /\ UNCHANGED <<dots, score, moves_left, completions, drop>>

\* handle_click, empty trail: push
ClickStart(x, y) ==
    /\ moves_left # 0
    /\ trail = <<>>
    /\ trail' = <<<<x, y>>>>
    /\ op' = "start"
    /\ prev' = Phase
    /\ fin' = NoFinish
    /\ UNCHANGED <<dots, score, moves_left, completions, drop>>

handle_click(x, y) ==
    \/ ClickTerminal(x, y)
    \/ ClickComplete(x, y)
    \/ ClickExtend(x, y)
    \/ ClickCancel(x, y)
    \/ ClickStart(x, y)

HandleClick == \E x \in Coord, y \in Coord : handle_click(x, y)

\* faulty variant: trail.clear() is missing
reset_keeps_trail ==
    /\ dots' \in RandomBoards
    /\ score' = 0
    /\ trail' = trail
    /\ moves_left' = MOVE_LIMIT
    /\ op' = "reset"
    /\ prev' = Phase
    /\ fin' = NoFinish
    /\ completions' = 0
    /\ drop' = drop

\* BoardState::reset()
reset ==
    /\ dots' \in RandomBoards
    /\ score' = 0
    /\ trail' = <<>>
    /\ moves_left' = MOVE_LIMIT
    /\ op' = "reset"
    /\ prev' = Phase
    /\ fin' = NoFinish
    /\ completions' = 0
    /\ drop' = drop

Next == HandleClick \/ reset

\* the session as the application drives it: clicks and the Reset button
Spec == Init /\ [][Next]_vars

\* ---------------------------------------------------------------- direct calls
\* finish_trail() called on the board as it stands (it is pub; test_drop calls
\* it this way): the returned count is dropped, score and moves_left stay
FinishTrailCall ==
    /\ \E r \in finish_trail(dots, trail) :
          /\ dots' = r.dots
          /\ trail' = r.trail
          /\ fin' = FinishRecord(trail, r)
    /\ op' = "finish_trail"
    /\ prev' = Phase
    /\ UNCHANGED <<score, moves_left, completions, drop>>

NextApi == HandleClick \/ FinishTrailCall

\* clicks, and finish_trail called directly at any moment
SpecApi == Init /\ [][NextApi]_vars

\* the trails test_drop builds with trail.push: any sequence of coordinates
RECURSIVE SeqsUpTo(_, _)
SeqsUpTo(S, n) ==
    IF n = 0
    THEN {<<>>}
    ELSE LET shorter == SeqsUpTo(S, n - 1)
         IN shorter \cup {Append(t, c) : t \in shorter, c \in S}

\* new() on which every draw gave the same colour, then pushes onto the trail
InitLoop ==
    /\ dots \in {b \in RandomBoards : \A i \in Cells : b[i] = b[0]}
    /\ trail \in SeqsUpTo(Coord \X Coord, MaxInput)
    /\ score = 0
    /\ moves_left = MOVE_LIMIT
    /\ op = "new"
    /\ prev = "Idle"
    /\ fin = NoFinish
    /\ completions = 0
    /\ drop = NoDrop

\* has_loop() called on the trail as it stands; fin.loop holds its value
HasLoopCall ==
    /\ op' = "has_loop"
    /\ prev' = Phase
    /\ fin' = [NoFinish EXCEPT !.len = Len(trail), !.loop = has_loop(trail)]
    /\ UNCHANGED <<dots, trail, score, moves_left, completions, drop>>

NextLoop == HasLoopCall

\* has_loop applied to pushed trails
SpecLoop == InitLoop /\ [][NextLoop]_vars

\* ---------------------------------------------------------------- drop_remaining, by column
\* the board as drop_remaining finds it: finish_trail has cleared, at least
\* one cell is Empty (the cells of a pushed trail, or of one colour)
InitDrop ==
    /\ dots \in {b \in [Cells -> RandomColors \cup {Empty}] :
                    \E i \in Cells : b[i] = Empty}
    /\ trail = <<>>
    /\ score = 0
    /\ moves_left = MOVE_LIMIT
    /\ op = "clear"
    /\ prev = "Idle"
    /\ fin = NoFinish
    /\ completions = 0
    /\ drop = NoDrop

\* one iteration of "for x in 0..BOARD_SIZE" of drop_remaining: the while
\* loop of column drop.col, to its end
DropColumn ==
    /\ drop.col < BOARD_SIZE
    /\ LET c == ColumnLoop(dots, drop.col, 1, {}, TRUE)
       IN \E o \in c.outs :
             /\ dots' = o.dots
             /\ drop' = [col |-> drop.col + 1, x |-> drop.col, filled |-> c.filled,
                         passes |-> c.passes, first_empty |-> c.first_empty,
                         log |-> o.log]
    /\ op' = "column"
    /\ prev' = Phase
    /\ UNCHANGED <<trail, score, moves_left, fin, completions>>

NextDrop == DropColumn

\* drop_remaining on any board that has Empty cells, one column at a step
SpecDrop == InitDrop /\ [][NextDrop]_vars

\* ---------------------------------------------------------------- claims
TypeOK ==
    /\ dots \in [Cells -> RandomColors \cup {Empty}]
    /\ trail \in Seq(Coord \X Coord)
    /\ score \in Nat
    /\ moves_left \in 0 .. MOVE_LIMIT

\* the coordinates of a trail, and "some coordinate occurs at two positions"
Coords(t) == {t[k] : k \in 1 .. Len(t)}

Repeats(t) == Cardinality(Coords(t)) < Len(t)

\* the cell of a coordinate pair
CellOf(c) == c[2] * BOARD_SIZE + c[1]

\* the cells holding colour col on board d
CellsOfColor(d, col) == {i \in Cells : d[i] = col}

\* C1: in every reachable state (after new, and after every handle_click or
\* reset has returned) no cell of the grid is Empty.
C1_NoEmptyCell == \A i \in Cells : dots[i] # Empty

\* a completion whose clear left a column with an Empty cell below a
\* surviving one (rows 0 cleared, row 1 kept), refilled on return
C1_Witness ==
    /\ op = "complete"
    /\ \E x \in Coord : index(x, 0) \in fin.cleared /\ index(x, 1) \notin fin.cleared
    /\ \E x \in Coord : {index(x, 0), index(x, 1)} \subseteq fin.cleared
                        /\ index(x, 2) \notin fin.cleared
    /\ C1_NoEmptyCell

\* C2: a finish_trail on a trail of two or more entries that repeats a
\* coordinate takes the loop branch, clears exactly the cells that held the
\* colour of trail[0] (all of them, on or off the trail) and returns their
\* number, which is not zero; the completion click adds it to score.
C2_LoopClearsColor ==
    [][(op' \in {"complete", "finish_trail"} /\ Len(trail) >= 2 /\ Repeats(trail)) =>
          /\ fin'.loop
          /\ fin'.cleared = CellsOfColor(dots, dots[CellOf(trail[1])])
          /\ fin'.ret = Cardinality(CellsOfColor(dots, dots[CellOf(trail[1])]))
          /\ fin'.ret # 0
          /\ op' = "complete" => score' = score + fin'.ret]_vars

\* a completed loop that cleared cells off the trail too
C2_Witness ==
    /\ op = "complete"
    /\ fin.loop
    /\ fin.len = 5
    /\ fin.ret > 4
    /\ score = fin.ret

\* C3: a completion click on a trail of n >= 2 entries without a repeated
\* coordinate does not take the loop branch, clears exactly the n cells of the
\* trail and adds n to score.
C3_TrailClearsOwnCells ==
    [][(op' = "complete" /\ ~Repeats(trail)) =>
          /\ ~fin'.loop
          /\ fin'.cleared = {CellOf(c) : c \in Coords(trail)}
          /\ Cardinality(fin'.cleared) = Len(trail)
          /\ fin'.ret = Len(trail)
          /\ score' = score + Len(trail)]_vars

\* a completed two-cell trail: two cells cleared, score 2
C3_Witness ==
    /\ op = "complete"
    /\ ~fin.loop
    /\ fin.len = 2
    /\ Cardinality(fin.cleared) = 2
    /\ score = 2

\* C4: a completion click takes exactly one from moves_left, every other click
\* leaves it alone; so moves_left is MOVE_LIMIT less the completions since
\* new() or the last reset(), and 0 after MOVE_LIMIT of them.
C4_MovesLeft ==
    [][/\ op' = "complete" => moves_left' = moves_left - 1
       /\ op' \in {"start", "extend", "cancel", "terminal"} => moves_left' = moves_left
       /\ moves_left' = MOVE_LIMIT - completions'
       /\ completions' = MOVE_LIMIT => moves_left' = 0]_vars

\* the completion that used up the last move
C4_Witness ==
    /\ op = "complete"
    /\ completions = MOVE_LIMIT
    /\ moves_left = 0

\* C5: with moves_left = 0 every click leaves grid, trail, score and
\* moves_left as they are; only reset() ends this.
C5_TerminalNoOp ==
    [][(moves_left = 0 /\ op' # "reset") =>
          UNCHANGED <<dots, trail, score, moves_left>>]_vars

\* a click made in the Terminal state has returned
C5_Witness ==
    /\ op = "terminal"
    /\ prev = "Terminal"
    /\ moves_left = 0
    /\ score > 0

\* C6: reset() from any state leaves moves_left = MOVE_LIMIT, score = 0, an
\* empty trail and a grid without Empty, and the next click is accepted.
C6_Reset ==
    op = "reset" =>
        /\ moves_left = MOVE_LIMIT
        /\ score = 0
        /\ trail = <<>>
        /\ \A i \in Cells : dots[i] \in RandomColors
        /\ moves_left # 0
        /\ \A x \in Coord, y \in Coord : ENABLED ClickStart(x, y)

\* reset() has run in the Terminal state
C6_Witness ==
    /\ op = "reset"
    /\ prev = "Terminal"
    /\ moves_left = MOVE_LIMIT

\* C7: finish_trail on a trail of length 0 or 1 returns 0 and changes
\* nothing: grid, trail, score and moves_left are as before.
C7_ShortTrailNoOp ==
    [][(op' = "finish_trail" /\ Len(trail) < 2) =>
          /\ fin'.ret = 0
          /\ fin'.cleared = {}
          /\ UNCHANGED <<dots, trail, score, moves_left>>]_vars

\* finish_trail has returned from a call on a one-entry trail
C7_Witness ==
    /\ op = "finish_trail"
    /\ fin.len = 1
    /\ fin.ret = 0
    /\ Len(trail) = 1

\* C8 as stated: after any finish_trail call the trail is empty.
C8_TrailEmptyAfterFinish == op = "finish_trail" => trail = <<>>

\* C8 (amended): after a finish_trail call the trail is empty when it had 0
\* or at least 2 entries on entry; a trail of one entry is left as it was.
C8_TrailAfterFinish ==
    [][op' = "finish_trail" =>
          IF Len(trail) = 1 THEN trail' = trail ELSE trail' = <<>>]_vars

\* finish_trail has returned from a call on a trail of two or more
C8_Witness ==
    /\ op = "finish_trail"
    /\ fin.len >= 2
    /\ trail = <<>>

\* the four orthogonal neighbours of a coordinate pair
Orthogonal(c) ==
    {<<c[1] + 1, c[2]>>, <<c[1] - 1, c[2]>>, <<c[1], c[2] + 1>>, <<c[1], c[2] - 1>>}

\* the condition of C9 for clicking c with trail t on board d
Connectable(d, t, c) ==
    \/ t = <<>>
    \/ /\ c \in Orthogonal(t[Len(t)])
       /\ Len(t) >= 2 => c # t[Len(t) - 1]
       /\ d[CellOf(c)] = d[CellOf(t[Len(t)])]

\* C9: can_connect(x, y) holds exactly when the trail is empty, or (x, y) is
\* an orthogonal neighbour of the last entry, is not the entry before it, and
\* has its colour; never for the last entry itself, a diagonal or a farther
\* cell.  Every entry a click appended passed this test.
C9_CanConnect ==
    /\ \A x \in Coord, y \in Coord :
          /\ can_connect(dots, trail, x, y) <=> Connectable(dots, trail, <<x, y>>)
          /\ (trail # <<>> /\ <<x, y>> \notin Orthogonal(trail[Len(trail)]))
                => ~can_connect(dots, trail, x, y)
    /\ op = "extend" =>
          Connectable(dots, SubSeq(trail, 1, Len(trail) - 1), trail[Len(trail)])

\* a trail of three, extended by a click: the step back onto the entry before
\* the last is refused although adjacent and of the same colour
C9_Witness ==
    /\ op = "extend"
    /\ Len(trail) = 3
    /\ ~can_connect(dots, trail, trail[2][1], trail[2][2])
    /\ \E x \in Coord, y \in Coord :
          <<x, y>> # trail[2] /\ can_connect(dots, trail, x, y)

\* C10: has_loop() is true exactly when some coordinate stands at two
\* positions of the trail, wherever they are; false for the empty trail and
\* for a trail of distinct coordinates.
C10_HasLoop ==
    op = "has_loop" =>
        /\ fin.loop <=> Repeats(trail)
        /\ fin.loop <=> (\E a, b \in 1 .. Len(trail) : a # b /\ trail[a] = trail[b])
        /\ trail = <<>> => ~fin.loop

\* has_loop() returned true for a repeat that does not involve the first entry
C10_Witness ==
    /\ op = "has_loop"
    /\ fin.loop
    /\ Len(trail) = 3
    /\ \A k \in 2 .. Len(trail) : trail[k] # trail[1]

\* C11: in every state reached through handle_click and reset, every entry of
\* the trail names a cell that is not Empty, consecutive entries lie at
\* Manhattan distance 1, all entries name cells of one colour on the grid as
\* it stands, and no entry equals the entry two places after it.
C11_TrailInvariant ==
    /\ \A k \in 1 .. Len(trail) : dots[CellOf(trail[k])] # Empty
    /\ \A k \in 1 .. Len(trail) - 1 :
          Abs(trail[k][1] - trail[k + 1][1]) + Abs(trail[k][2] - trail[k + 1][2]) = 1
    /\ \A j, k \in 1 .. Len(trail) : dots[CellOf(trail[j])] = dots[CellOf(trail[k])]
    /\ \A k \in 1 .. Len(trail) - 2 : trail[k] # trail[k + 2]

\* a trail grown by clicks to five entries that comes back onto its first cell
C11_Witness ==
    /\ op = "extend"
    /\ Len(trail) = 5
    /\ trail[5] = trail[1]
    /\ C11_TrailInvariant

\* C12 as stated: no operation, handle_click or reset, leaves score lower than
\* it was before the operation.
C12_ScoreNeverDrops == [][score' >= score]_vars

\* C12: no handle_click leaves score lower than it was before the click;
\* reset() sets score to 0 whatever it was.
C12_ScoreMonotone ==
    [][/\ op' # "reset" => score' >= score
       /\ op' = "reset" => score' = 0]_vars

\* reset() has run in the Terminal state, which only a completion reaches
\* and every completion adds at least 2 to score
C12_Witness ==
    /\ op = "reset"
    /\ prev = "Terminal"
    /\ score = 0
    /\ trail = <<>>

\* C13: while moves_left # 0 and the trail is not empty, a click that is not a
\* completion (the last entry of a trail of two or more) and that names a cell
\* the trail cannot be extended to, the only cell of a one-entry trail
\* included, takes the "cannot connect" branch and no other; that branch
\* leaves the trail empty and grid, score and moves_left as they were.
C13_CancelDiscardsTrail ==
    /\ [](/\ (moves_left # 0 /\ trail # <<>>) =>
               \A x \in Coord, y \in Coord :
                   (/\ ~(Len(trail) >= 2 /\ trail[Len(trail)] = <<x, y>>)
                    /\ ~Connectable(dots, trail, <<x, y>>))
                   => /\ ENABLED ClickCancel(x, y)
                      /\ ~ENABLED ClickExtend(x, y)
                      /\ ~ENABLED ClickStart(x, y)
                      /\ ~ENABLED ClickComplete(x, y)
                      /\ ~ENABLED ClickTerminal(x, y)
          /\ (moves_left # 0 /\ Len(trail) = 1) =>
               ENABLED ClickCancel(trail[1][1], trail[1][2]))
    /\ [][op' = "cancel" =>
            /\ trail' = <<>>
            /\ dots' = dots
            /\ score' = score
            /\ moves_left' = moves_left]_vars

\* a refused click has thrown away a trail that was being built
C13_Witness ==
    /\ op = "cancel"
    /\ prev = "Building"
    /\ trail = <<>>
    /\ moves_left = MOVE_LIMIT
    /\ \A i \in Cells : dots[i] # Empty

\* the cells of column x
Column(x) == {index(x, y) : y \in Coord}

\* C14: a finish_trail that clears (trail of two or more entries) leaves every
\* cell of every column in which it cleared no cell, the top row included,
\* with the colour it had before the call.
C14_UntouchedColumnsKept ==
    [][(op' \in {"complete", "finish_trail"} /\ Len(trail) >= 2) =>
          \A x \in Coord :
              (Column(x) \cap fin'.cleared = {}) =>
                  \A i \in Column(x) : dots'[i] = dots[i]]_vars

\* the rows of column x that were not cleared, bottom to top
KeptRows(cl, x) ==
    SelectSeq([k \in 1 .. BOARD_SIZE |-> k - 1], LAMBDA y : index(x, y) \notin cl)

\* C15: a finish_trail that clears k >= 1 cells of a column leaves, in rows
\* 0 .. BOARD_SIZE-k-1 of that column, the cells it did not clear, with their
\* colours and in their bottom-to-top order; the k rows above them are the
\* only ones that hold drawn colours.
C15_SurvivorsKept ==
    [][(op' \in {"complete", "finish_trail"} /\ Len(trail) >= 2) =>
          \A x \in Coord :
              LET kept == KeptRows(fin'.cleared, x)
                  k == Cardinality(Column(x) \cap fin'.cleared)
              IN k >= 1 =>
                    /\ Len(kept) = BOARD_SIZE - k
                    /\ \A j \in 1 .. Len(kept) :
                          dots'[index(x, j - 1)] = dots[index(x, kept[j])]
                    /\ \A y \in BOARD_SIZE - k .. BOARD_SIZE - 1 :
                          dots'[index(x, y)] \in RandomColors]_vars

\* a clear that took the bottom cell of a column and left the two above it,
\* which came down one row each
C15_Witness ==
    /\ op \in {"complete", "finish_trail"}
    /\ fin.len >= 2
    /\ \E x \in Coord :
          /\ index(x, 0) \in fin.cleared
          /\ index(x, 1) \notin fin.cleared
          /\ index(x, 2) \notin fin.cleared
          /\ dots[index(x, 0)] # dots[index(x, 1)]

\* C16: the while loop of drop_remaining for column x, compaction passes and
\* fill, leaves every cell of every other column as it was.
C16_ColumnsIndependent ==
    [][op' = "column" =>
          \A i \in Cells \ Column(drop'.x) : dots'[i] = dots[i]]_vars

\* column 1 took two passes and was filled while column 2 still waits with an
\* Empty cell in it
C16_Witness ==
    /\ op = "column"
    /\ drop.x = 1
    /\ drop.passes = 2
    /\ \E i \in Column(2) : dots[i] = Empty
    /\ \A i \in Column(1) : dots[i] # Empty

\* C17: on any board with Empty cells the while loop of every column comes to
\* an end; it ends on the break, after fill_column returned true, with no
\* Empty cell left in the column, and after at most BOARD_SIZE passes.
C17_ColumnLoopEnds ==
    /\ [](drop.col < BOARD_SIZE =>
             LET c == ColumnLoop(dots, drop.col, 1, {}, FALSE)
             IN c.filled /\ c.outs # {})
    /\ [][op' = "column" =>
            /\ drop'.filled
            /\ drop'.passes \in 1 .. BOARD_SIZE
            /\ \A i \in Column(drop'.x) : dots'[i] # Empty]_vars

\* a column that needed a second pass: fill_column returned false once
C17_Witness ==
    /\ op = "column"
    /\ drop.filled
    /\ drop.passes = BOARD_SIZE - 1
    /\ drop.first_empty = 1
    /\ drop.col = BOARD_SIZE

\* the test the claim puts on a colour c drawn for (x, y): one of the two
\* triples around it, in a column that exists, is all of colour c
Trivial(d, x, y, c) ==
    \/ /\ x - 1 \in Coord
       /\ d[index(x - 1, y)] = c
       /\ d[index(x - 1, y - 1)] = c
       /\ d[index(x, y - 1)] = c
    \/ /\ x + 1 \in Coord
       /\ d[index(x, y - 1)] = c
       /\ d[index(x + 1, y - 1)] = c
       /\ d[index(x + 1, y)] = c

\* C18: for every cell (x, y) fill_column fills with y >= 1, a colour drawn
\* that equals the three cells (x-1,y), (x-1,y-1), (x,y-1) when column x-1
\* exists, or the three cells (x,y-1), (x+1,y-1), (x+1,y) when column x+1
\* exists, is drawn again, the first draw and each of the redraws up to the
\* third alike; no cell is drawn more than 1 + 3 times, a cell of row 0 once.
C18_Reroll ==
    [][(op' = "column" /\ drop'.filled) =>
          \A j \in 1 .. Len(drop'.log) :
              LET y == drop'.first_empty + j - 1
                  drawn == drop'.log[j]
              IN /\ Len(drawn) \in 1 .. 1 + total_rolls
                 /\ dots'[index(drop'.x, y)] = drawn[Len(drawn)]
                 /\ y = 0 => Len(drawn) = 1
                 /\ y >= 1 =>
                       \A k \in 1 .. Len(drawn) :
                           (k <= total_rolls /\ Trivial(dots', drop'.x, y, drawn[k]))
                               => Len(drawn) > k]_vars

\* C19: in every state reached through handle_click and reset, moves_left = 0
\* implies that the trail is empty.
C19_TerminalTrailEmpty == moves_left = 0 => trail = <<>>

\* the Terminal state, entered by the completion of a trail of five entries
C19_Witness ==
    /\ moves_left = 0
    /\ trail = <<>>
    /\ op = "complete"
    /\ fin.len = MaxTrail

\* C20: through any clicks within the board and resets, every coordinate
\* whose index drop_remaining and fill_column compute (the cell itself, the
\* neighbours i1 .. i5, the y+1 of the swap) and every trail entry has both
\* parts in 0 .. BOARD_SIZE-1, so its index is in 0 .. BOARD_SIZE*BOARD_SIZE-1;
\* moves_left is never below 0 and a click lowers it only from above 0.
C20_IndexSafety ==
    /\ [](/\ fin.touched \subseteq Coord \X Coord
          /\ \A c \in fin.touched : index(c[1], c[2]) \in Cells
          /\ \A k \in 1 .. Len(trail) :
                trail[k] \in Coord \X Coord /\ CellOf(trail[k]) \in Cells
          /\ moves_left >= 0)
    /\ [][moves_left' < moves_left => (moves_left > 0 /\ moves_left' = moves_left - 1)]_vars

\* the last completion: cells were swapped upwards and refilled next to both
\* edges of the board, and the move counter came down to 0
C20_Witness ==
    /\ op = "complete"
    /\ moves_left = 0
    /\ fin.ret >= 3
    /\ {<<0, 0>>, <<0, 1>>, <<BOARD_SIZE - 1, BOARD_SIZE - 1>>,
        <<BOARD_SIZE - 2, BOARD_SIZE - 2>>} \subseteq fin.touched
    /\ \E x \in Coord : index(x, 0) \in fin.cleared

====
